---- MODULE Spec2Model ----
(***************************************************************************)
(* CreditExplain: the Self-RAG orchestrator (core/self_rag.py) with its    *)
(* critic (core/critic.py), generator (core/generator.py), reranker        *)
(* (core/reranker.py), retriever (core/retrieval.py) and audit sink        *)
(* (core/provenance.py).                                                   *)
(*                                                                         *)
(* Numbers.  Critic scores are floats in the code; here a float is a       *)
(* record [nan, v] with v in hundredths (0.7 is v = 70).  Weights are in   *)
(* hundredths too, so a combined score is in ten-thousandths.  Python      *)
(* dicts are TLA+ records read with Get(d, key, default), the model of     *)
(* dict.get.  Python None is None (dict- and float-valued fields),         *)
(* NoIndex (integer fields) or the string "None" (string fields).          *)
(***************************************************************************)
EXTENDS Integers, Sequences, FiniteSets, TLC

\* ---------------------------------------------------------------- bounds
\* Number of documents the vector store can hand back to one search.
MaxDocs == 2
\* Scaled-down SelfRAG.top_n / LangChainReranker.top_n (6 in the code).
TopN == 2
\* Number of runs that write their audit record concurrently.
MaxWriters == 3
\* Length of the candidate list handed to a direct call of rerank.
MaxCandidates == 3
\* Number of threads that call get_self_rag, and number of times the
\* SelfRAG constructor may raise.
MaxThreads == 3
MaxRaises == 1

\* ------------------------------------------------------ program constants
top_k == 50
SearchCap == 100
fully_supported_threshold == 70
w_isrel == 45
w_issup == 40
w_isuse == 15
fallback_score == 50
fallback_retrieve == TRUE
max_follow_up_questions == 5
DefaultFollowUpCount == 5

\* ---------------------------------------------------------------- helpers
None == [none |-> TRUE]
NoIndex == 0 - 1

Get(d, key, default) == IF key \in DOMAIN d THEN d[key] ELSE default

Min2(a, b) == IF a < b THEN a ELSE b

\* A Python float: NaN or a number of hundredths.
Num(n) == [nan |-> FALSE, v |-> n]
NaN == [nan |-> TRUE, v |-> 0]

\* Python's <  on floats: every comparison with NaN is False.
Lt(x, y) == ~x.nan /\ ~y.nan /\ x.v < y.v

\* Python's builtin min(a, b) / max(a, b): the first argument is kept unless
\* the second compares strictly smaller / larger.
PyMin(a, b) == IF Lt(b, a) THEN b ELSE a
PyMax(a, b) == IF Lt(a, b) THEN b ELSE a

\* ------------------------------------------------------- critic: scoring
\* Raw JSON values the critic model may put in a score field.
\*   num  a JSON number            str  a string float() parses
\*   nan  NaN (number or "nan")    bad  null, a list, a non-numeric string
Raw(k, n) == [k |-> k, v |-> n]

\* float(x) of critic.py:165; ok = FALSE models ValueError / TypeError.
ToFloat(raw) ==
    CASE raw.k = "num" -> [ok |-> TRUE, f |-> Num(raw.v)]
      [] raw.k = "str" -> [ok |-> TRUE, f |-> Num(raw.v)]
      [] raw.k = "nan" -> [ok |-> TRUE, f |-> NaN]
      [] OTHER         -> [ok |-> FALSE, f |-> NaN]

\* Variant: only the lower bound is applied.
ClampLowerOnly(score) == PyMax(Num(0), score)

\* max(0.0, min(1.0, score)) of critic.py:166.
Clamp(score) == PyMax(Num(0), PyMin(Num(100), score))

ScoreKeys == {"isrel", "issup", "isuse"}

fallback_scores == [isrel |-> Num(fallback_score),
                    issup |-> Num(fallback_score),
                    isuse |-> Num(fallback_score)]

\* One score field through _validate_scores: a missing key takes the
\* fallback, then float() and the clamp, the fallback again on an error.
ValidateField(scores, key) ==
    IF key \notin DOMAIN scores THEN Clamp(fallback_scores[key])
    ELSE LET c == ToFloat(scores[key])
         IN  IF c.ok THEN Clamp(c.f) ELSE fallback_scores[key]

\* GroqCritic._validate_scores: scores is the parsed JSON object.
_validate_scores(scores) ==
    [isrel |-> ValidateField(scores, "isrel"),
     issup |-> ValidateField(scores, "issup"),
     isuse |-> ValidateField(scores, "isuse"),
     notes |-> "model"]

\* Replies of the score chain.  kind "raise": the chain or the JSON parser
\* raised.  kind "notdict": valid JSON that is not an object.  kind
\* "dict": an object whose body holds the score fields it carries.
ScoreDict(b) == [kind |-> "dict", body |-> b]

\* GroqCritic.score_candidate: every failure ends in the fallback scores.
score_candidate(reply) ==
    IF reply.kind = "dict"
    THEN _validate_scores(reply.body)
    ELSE [isrel |-> fallback_scores.isrel,
          issup |-> fallback_scores.issup,
          isuse |-> fallback_scores.isuse,
          notes |-> "fallback"]

\* SelfRAG._calculate_combined_score: sum of weight * component.
selection_weights == [isrel |-> w_isrel, issup |-> w_issup, isuse |-> w_isuse]

Scale(w, x) == [nan |-> x.nan, v |-> w * x.v]
Plus(x, y) == [nan |-> x.nan \/ y.nan, v |-> x.v + y.v]

_calculate_combined_score(score_components) ==
    Plus(Plus(Scale(Get(selection_weights, "isrel", 0),
                    Get(score_components, "isrel", Num(0))),
              Scale(Get(selection_weights, "issup", 0),
                    Get(score_components, "issup", Num(0)))),
         Scale(Get(selection_weights, "isuse", 0),
               Get(score_components, "isuse", Num(0))))

\* ------------------------------------------------- critic: the decision
\* A JSON value in the 'retrieve' field: its JSON type t and its Python
\* truth value b (null, false, 0 and "" are falsy).
Json(t, b) == [t |-> t, b |-> b]
Truthy(val) == val.b

\* GroqCritic.decide_retrieve.  reply.kind "raise": the chain or the JSON
\* parser raised; "notdict": valid JSON that is not an object (ValueError);
\* "dict": an object, body holds the fields it carries.
decide_retrieve(reply) ==
    IF reply.kind = "dict"
    THEN IF "retrieve" \notin DOMAIN reply.body
         THEN [retrieve |-> Json("bool", fallback_retrieve),
               notes |-> Get(reply.body, "notes", "absent")]
         ELSE reply.body
    ELSE [retrieve |-> Json("bool", fallback_retrieve), notes |-> "fallback"]

\* ---------------------------------------------------------------- generator
\* GroqGenerator._validate_generation_result on a parsed JSON object.
_validate_generation_result(result) ==
    [explanation |->
        IF "explanation" \in DOMAIN result /\ result.explanation # ""
        THEN result.explanation ELSE "standin",
     citations |->
        IF "citations" \in DOMAIN result /\ result.citations.islist
        THEN result.citations.items ELSE <<>>,
     confidence |->
        IF "confidence" \in DOMAIN result
           /\ result.confidence \in {"HIGH", "MEDIUM", "LOW"}
        THEN result.confidence ELSE "MEDIUM"]

\* GroqGenerator._create_fallback_response.
_create_fallback_response(passages) ==
    [explanation |-> IF passages # <<>> THEN "fallback_error_processing"
                     ELSE "fallback_no_documents",
     citations |-> <<>>,
     confidence |-> "LOW",
     model_version |-> "generator_model",
     error |-> "generation_error",
     passages_used |-> Len(passages)]

\* GroqGenerator.generate_from_passages: never raises.
generate_from_passages(reply, passages) ==
    IF reply.kind = "dict"
    THEN LET v == _validate_generation_result(reply.body)
         IN  [explanation |-> v.explanation,
              citations |-> v.citations,
              confidence |-> v.confidence,
              model_version |-> "generator_model",
              passages_used |-> Len(passages)]
    ELSE _create_fallback_response(passages)

\* GroqGenerator.generate_follow_ups: the returned list, as its length and
\* whether it is the built-in default list.
_generate_default_follow_ups == [n |-> DefaultFollowUpCount, default |-> TRUE]

\* Variant: the list of the reply is returned whole.
generate_follow_ups_untruncated(reply) ==
    IF reply.kind = "dict"
    THEN LET questions == Get(reply.body, "questions", [islist |-> TRUE, n |-> 0])
         IN  IF questions.islist /\ questions.n > 0
             THEN [n |-> questions.n, default |-> FALSE]
             ELSE _generate_default_follow_ups
    ELSE _generate_default_follow_ups

generate_follow_ups(reply) ==
    IF reply.kind = "dict"
    THEN LET questions == Get(reply.body, "questions", [islist |-> TRUE, n |-> 0])
         IN  IF questions.islist /\ questions.n > 0
             THEN [n |-> Min2(questions.n, max_follow_up_questions),
                   default |-> FALSE]
             ELSE _generate_default_follow_ups
    ELSE _generate_default_follow_ups

\* ------------------------------------------------------ embedder, retriever
\* VectorRetriever.retrieve: the store raised (empty list) or returned n
\* documents, at most min(k, 100) of them; every distance is set to 0.0.
\* Variant: a search that raised yields one stale document.
retrieve_stale(outcome, k) ==
    IF outcome.kind = "raise" THEN <<[id |-> 1, distance |-> Num(0)]>>
    ELSE [i \in 1..Min2(outcome.n, Min2(k, SearchCap)) |->
            [id |-> i, distance |-> Num(0)]]

retrieve(outcome, k) ==
    IF outcome.kind = "raise" THEN <<>>
    ELSE [i \in 1..Min2(outcome.n, Min2(k, SearchCap)) |->
            [id |-> i, distance |-> Num(0)]]

\* ---------------------------------------------------------------- reranker
\* LangChainReranker.invoke with self.top_n = reranker_top_n.  outcome.kind
\* "ok": compress_documents returned the documents at positions
\* outcome.order; "fail": it raised; "unloaded": the model never loaded
\* (compressor is None).  Both failures return documents[:self.top_n] with
\* scores 1.0.  A compressed document carries no relevance_score, so its
\* score is the default 1.0 as well.
reranker_top_n == TopN

Prefix(s, n) == SubSeq(s, 1, Min2(n, Len(s)))

invoke(outcome, documents) ==
    IF outcome.kind = "ok"
    THEN [documents |-> [i \in 1..Len(outcome.order) |-> documents[outcome.order[i]]],
          scores |-> [i \in 1..Len(outcome.order) |-> Num(100)]]
    ELSE [documents |-> Prefix(documents, reranker_top_n),
          scores |-> [i \in 1..Min2(Len(documents), reranker_top_n) |-> Num(100)]]

\* LangChainReranker.rerank: top_n is accepted and not passed to invoke; the
\* result is the zip of the documents and scores of invoke.
rerank(outcome, candidates, top_n) ==
    LET result == invoke(outcome, candidates)
        m == Min2(Len(result.documents), Len(result.scores))
    IN  [passages |-> [i \in 1..m |->
                         [id |-> result.documents[i].id,
                          distance |-> result.documents[i].distance,
                          rerank_score |-> result.scores[i]]],
         scores |-> [i \in 1..m |-> result.scores[i]]]

\* -------------------------------------------------------------- provenance
\* ProvenanceLogger.create_audit_record.
CandidateProvenance(candidate) ==
    [candidate_id |-> Get(candidate, "id", 0),
     retrieval_score |-> Get(candidate, "distance", Num(0)),
     rerank_score |-> Get(candidate, "rerank_score", None),
     isrel_score |-> Get(candidate, "isrel_score", None),
     issup_score |-> Get(candidate, "issup_score", None),
     isuse_score |-> Get(candidate, "isuse_score", None)]

create_audit_record(rid, q, top_candidates, result, provenance_meta) ==
    [run_id |-> rid,
     query |-> q,
     retrieval_decision |-> Get(provenance_meta, "retrieval_decision", None),
     retrieval_performed |-> Get(provenance_meta, "retrieval_performed", TRUE),
     retrieved_count |-> Get(provenance_meta, "retrieval_count", 0),
     top_candidates |-> [i \in 1..Len(top_candidates) |->
                            CandidateProvenance(top_candidates[i])],
     rerank_scores |-> Get(provenance_meta, "rerank_scores", <<>>),
     selected_candidate_index |->
         Get(provenance_meta, "selected_candidate_index", NoIndex),
     selected_candidate_scores |->
         Get(provenance_meta, "selected_candidate_scores", None),
     confidence |-> Get(result, "confidence", "UNKNOWN"),
     result |-> result,
     follow_up_questions |->
         Get(result, "follow_up_questions", [n |-> 0, default |-> FALSE]),
     error |-> Get(provenance_meta, "error", "None"),
     status |-> Get(provenance_meta, "status", "success")]

\* ProvenanceLogger._write_sync: the append, or nothing when open/write
\* raised (the exception is logged and swallowed).
_write_sync(file, record, fails) ==
    IF fails THEN file ELSE Append(file, record)

\* ProvenanceLogger.current_file, the value write_audit returns.
current_file == "audit_YYYYMMDD.jsonl"

\* ------------------------------------------------- inputs of the model
\* The query strings: a blank one (empty once trimmed) and a question.
Queries == {" ", "q"}

\* str.strip
strip(q) == IF q = " " THEN "" ELSE q

DecideReplies ==
    { [kind |-> "raise"], [kind |-> "notdict"],
      [kind |-> "dict", body |-> [notes |-> "model"]],
      [kind |-> "dict", body |-> [retrieve |-> Json("bool", TRUE), notes |-> "model"]],
      [kind |-> "dict", body |-> [retrieve |-> Json("bool", FALSE), notes |-> "model"]],
      [kind |-> "dict", body |-> [retrieve |-> Json("null", FALSE), notes |-> "model"]],
      [kind |-> "dict", body |-> [retrieve |-> Json("str", TRUE), notes |-> "model"]] }

\* Replies of the generation chain: it raised; the object the prompt asks
\* for; an object without explanation, with a citation that lacks
\* text_excerpt and a confidence outside HIGH / MEDIUM / LOW.
GenReplies ==
    { [kind |-> "raise"],
      [kind |-> "dict",
       body |-> [explanation |-> "generated",
                 citations |-> [islist |-> TRUE,
                                items |-> <<[doc_id |-> "doc1",
                                             chunk_id |-> "chunk1",
                                             text_excerpt |-> "excerpt"]>>],
                 confidence |-> "HIGH"]],
      [kind |-> "dict",
       body |-> [citations |-> [islist |-> TRUE,
                                items |-> <<[doc_id |-> "doc1"]>>],
                 confidence |-> "CERTAIN"]] }

\* Score replies: failures, in-range values (among them two with the same
\* combined score and different issup, and one with the highest combined
\* score and an issup below the threshold), out-of-range values, a missing
\* key, numeric strings, NaN and non-numeric values.
ScoreReplies ==
    { [kind |-> "raise"], [kind |-> "notdict"],
      ScoreDict([isrel |-> Raw("num", 80), issup |-> Raw("num", 70),
                 isuse |-> Raw("num", 80)]),
      ScoreDict([isrel |-> Raw("num", 80), issup |-> Raw("num", 100),
                 isuse |-> Raw("num", 0)]),
      ScoreDict([isrel |-> Raw("num", 100), issup |-> Raw("num", 60),
                 isuse |-> Raw("num", 100)]),
      ScoreDict([isrel |-> Raw("num", 130), issup |-> Raw("num", 0 - 20)]),
      ScoreDict([isrel |-> Raw("bad", 0), issup |-> Raw("str", 90),
                 isuse |-> Raw("nan", 0)]) }

FollowReplies ==
    { [kind |-> "raise"], [kind |-> "notdict"],
      [kind |-> "dict", body |-> [other |-> 0]],
      [kind |-> "dict", body |-> [questions |-> [islist |-> TRUE, n |-> 0]]],
      [kind |-> "dict", body |-> [questions |-> [islist |-> TRUE, n |-> 3]]],
      [kind |-> "dict", body |-> [questions |-> [islist |-> TRUE, n |-> 7]]],
      [kind |-> "dict", body |-> [questions |-> [islist |-> FALSE, n |-> 1]]] }

RetrieveOutcomes == {[kind |-> "raise", n |-> 0]}
                    \cup {[kind |-> "ok", n |-> n] : n \in 0..MaxDocs}

\* The orders compress_documents can return for n documents: the top
\* min(self.top_n, n) positions, in any order of relevance.
Orders(n) ==
    {o \in [1..Min2(reranker_top_n, n) -> 1..n] :
        \A i, j \in DOMAIN o : i # j => o[i] # o[j]}

RerankOutcomes(n) == {[kind |-> "fail", order |-> <<>>],
                      [kind |-> "unloaded", order |-> <<>>]}
                     \cup {[kind |-> "ok", order |-> o] : o \in Orders(n)}

\* ------------------------------------------------------------------ state
VARIABLES
    pc,                 \* position of the run in SelfRAG.run
    run_id,             \* run_id of the current run (uuid4: fresh per run)
    query,              \* the query argument
    calls,              \* collaborator calls of the current run, in order
    retrieval_decision, \* result of critic.decide_retrieve
    initial_candidates, \* result of retriever.retrieve
    top_passages,       \* passages returned by reranker.rerank
    rerank_scores,      \* scores returned by reranker.rerank
    next_passage,       \* position of the per-passage loop in top_passages
    candidate_results,  \* candidates retained by the per-passage loop
    created,            \* AuditRecords created by the current run
    audit_file,         \* lines of the audit file, all runs
    response,           \* dict returned by run
    failed_steps,       \* per passage processed: which of its calls failed
    rerank_failed,      \* the reranker fell back (logged "Reranking failed")
    search_raised,      \* the vector search raised (logged "Retrieval failed")
    follow_ups_failed,  \* the follow-up chain gave no usable questions
    sink_pc,            \* position of each concurrent caller in _write_sync
    sink_fd,            \* file position of each caller's descriptor at open
    sink_buf,           \* text each caller's file object holds unflushed
    file_bytes,         \* the audit file as the write(2) calls left it
    rr_call,            \* arguments of a direct call of reranker.rerank
    rr_result,          \* what that call returned
    sg_pc,              \* position of each thread in get_self_rag
    sg_lock,            \* holder of _rag_lock, 0 when free
    sg_instance,        \* _rag_instance: 0 for None, else the object
    sg_new,             \* the object each thread's constructor call returned
    sg_result,          \* what get_self_rag returned to each thread
    sg_built,           \* constructor runs that completed
    sg_raised           \* constructor runs that raised

sink_vars == <<sink_pc, sink_fd, sink_buf, file_bytes>>

rerank_vars == <<rr_call, rr_result>>

singleton_vars == <<sg_pc, sg_lock, sg_instance, sg_new, sg_result, sg_built,
                    sg_raised>>

run_vars == <<pc, run_id, query, calls, retrieval_decision, initial_candidates,
              top_passages, rerank_scores, next_passage, candidate_results,
              created, audit_file, response, failed_steps, rerank_failed,
              search_raised, follow_ups_failed>>

\* What a step of run leaves alone.
outside_run == <<sink_vars, rerank_vars, singleton_vars>>

vars == <<run_vars, sink_vars, rerank_vars, singleton_vars>>

Call(op, n) == [op |-> op, n |-> n]

\* The runs that call write_audit at the same time, each named by the
\* run_id of its record.
Writers == 1..MaxWriters

\* The threads that call get_self_rag.
Threads == 1..MaxThreads

\* json.dumps(record) + '\n' for the record of run rid: the JSON text and
\* the newline, one string handed to f.write.
line(rid) == <<[run_id |-> rid, part |-> "json"],
               [run_id |-> rid, part |-> "newline"]>>

\* The audit file is appended to by every run of the day: it starts with
\* the record of an earlier run (run_id 0, empty retrieval).
EarlierRecord ==
    create_audit_record(0, "q", <<>>,
                        [explanation |-> "no_relevant_documents",
                         citations |-> <<>>, confidence |-> "LOW"],
                        [error |-> "empty_retrieval",
                         retrieval_performed |-> TRUE, status |-> "error"])

Init ==
    /\ pc = "idle"
    /\ run_id = 0
    /\ query = ""
    /\ calls = <<>>
    /\ retrieval_decision = None
    /\ initial_candidates = <<>>
    /\ top_passages = <<>>
    /\ rerank_scores = <<>>
    /\ next_passage = 1
    /\ candidate_results = <<>>
    /\ created = <<>>
    /\ audit_file = <<EarlierRecord>>
    /\ response = None
    /\ failed_steps = <<>>
    /\ rerank_failed = FALSE
    /\ search_raised = FALSE
    /\ follow_ups_failed = FALSE
    /\ sink_pc = [w \in Writers |-> "called"]
    /\ sink_fd = [w \in Writers |-> 0]
    /\ sink_buf = [w \in Writers |-> <<>>]
    /\ file_bytes = line(0)
    /\ rr_call = None
    /\ rr_result = None
    /\ sg_pc = [t \in Threads |-> "start"]
    /\ sg_lock = 0
    /\ sg_instance = 0
    /\ sg_new = [t \in Threads |-> 0]
    /\ sg_result = [t \in Threads |-> 0]
    /\ sg_built = 0
    /\ sg_raised = 0

\* --------------------------------------------------- the audit of a run
\* ProvenanceLogger.write_audit: create the record, hand it to _write_sync;
\* the caller gets current_file back whether or not the write succeeded.
write_audit(rid, q, top_candidates, result, provenance_meta, fails) ==
    LET audit_record ==
            create_audit_record(rid, q, top_candidates, result, provenance_meta)
    IN  /\ created' = Append(created, audit_record)
        /\ audit_file' = _write_sync(audit_file, audit_record, fails)

\* A terminal of run: the audit is written, the response is returned.
Finish(top_candidates, result, provenance_meta, resp, fails) ==
    /\ write_audit(run_id, query, top_candidates, result, provenance_meta, fails)
    /\ response' = resp
    /\ pc' = "done"

\* ------------------------------------------------------ error terminals
canned(explanation) ==
    [explanation |-> explanation, citations |-> <<>>, confidence |-> "LOW"]

\* Variant: the metadata of an error terminal says status success.
error_meta_success(error) ==
    [error |-> error, retrieval_performed |-> TRUE, status |-> "success"]

error_meta(error) ==
    [error |-> error, retrieval_performed |-> TRUE, status |-> "error"]

error_return(rid, answer, error, performed) ==
    [run_id |-> rid, answer |-> answer, provenance_meta |-> error_meta(error),
     audit_id |-> current_file, retrieval_performed |-> performed,
     error |-> error]

\* Variant: an empty retrieval is reported as a processing failure.
_handle_empty_retrieval_as_failure(fails) ==
    Finish(<<>>, canned("error_processing_documents"),
           error_meta("processing_failure"),
           error_return(run_id, canned("error_processing_documents"),
                        "processing_failure", TRUE),
           fails)

\* SelfRAG._handle_empty_retrieval
_handle_empty_retrieval(fails) ==
    Finish(<<>>, canned("no_relevant_documents"), error_meta("empty_retrieval"),
           error_return(run_id, canned("no_relevant_documents"),
                        "empty_retrieval", TRUE),
           fails)

\* SelfRAG._handle_insufficient_support: candidates is the sorted list.
\* Variant: the payload reports the combined score as the support score.
insufficient_response_combined(candidates, scores) ==
    [status |-> "insufficient_support",
     message |-> "need_more_documents",
     best_attempt |-> IF candidates # <<>>
                      THEN candidates[1].candidate_answer ELSE None,
     support_score |-> IF candidates # <<>>
                       THEN candidates[1].combined_score ELSE Num(0)]

insufficient_response(candidates, scores) ==
    [status |-> "insufficient_support",
     message |-> "need_more_documents",
     best_attempt |-> IF candidates # <<>>
                      THEN candidates[1].candidate_answer ELSE None,
     support_score |-> Get(scores, "issup", Num(0))]

_handle_insufficient_support(candidates, scores, fails) ==
    Finish(<<>>, insufficient_response(candidates, scores),
           error_meta("insufficient_support"),
           error_return(run_id, insufficient_response(candidates, scores),
                        "insufficient_support", TRUE),
           fails)

\* SelfRAG._handle_processing_failure
_handle_processing_failure(fails) ==
    Finish(<<>>, canned("error_processing_documents"),
           error_meta("processing_failure"),
           error_return(run_id, canned("error_processing_documents"),
                        "processing_failure", TRUE),
           fails)

\* Variant: the except clause returns without auditing.
_handle_pipeline_error_unaudited(fails) ==
    /\ response' = error_return(run_id, canned("system_error"),
                                "pipeline_error", FALSE)
    /\ pc' = "done"
    /\ UNCHANGED <<created, audit_file>>

\* SelfRAG._handle_pipeline_error: the audit says retrieval_performed = True,
\* the response says False.
_handle_pipeline_error(fails) ==
    Finish(<<>>, canned("system_error"), error_meta("pipeline_error"),
           error_return(run_id, canned("system_error"), "pipeline_error", FALSE),
           fails)

\* ----------------------------------------------------------- selection
\* candidate_results.sort(key=combined_score, reverse=True): Python's sort
\* is stable, also under reverse=True, so candidates with equal combined
\* scores keep their order in the list.  An element goes in front of the
\* first one whose key compares smaller.
\* Variant: an element goes in front of the first one whose key does not
\* compare larger, so equal keys end up in reverse order of the list.
RECURSIVE InsertDescTiesReversed(_, _)
InsertDescTiesReversed(sorted, x) ==
    IF sorted = <<>> THEN <<x>>
    ELSE IF ~Lt(x.combined_score, Head(sorted).combined_score)
         THEN <<x>> \o sorted
         ELSE <<Head(sorted)>> \o InsertDescTiesReversed(Tail(sorted), x)

RECURSIVE InsertDesc(_, _)
InsertDesc(sorted, x) ==
    IF sorted = <<>> THEN <<x>>
    ELSE IF Lt(Head(sorted).combined_score, x.combined_score)
         THEN <<x>> \o sorted
         ELSE <<Head(sorted)>> \o InsertDesc(Tail(sorted), x)

\* Variant: the list is left in loop order.
SortSkipped(list) == list

RECURSIVE SortDesc(_)
SortDesc(list) ==
    IF list = <<>> THEN <<>>
    ELSE InsertDesc(SortDesc(SubSeq(list, 1, Len(list) - 1)), list[Len(list)])

\* SelfRAG._process_candidate: generate, score, combine.  Both collaborators
\* catch their own failures, so a candidate is always returned.
\* candidate_index is Python's 0-based enumerate index.
_process_candidate(genReply, scoreReply, candidate_passage, candidate_index) ==
    LET generated_answer == generate_from_passages(genReply, <<candidate_passage>>)
        score_components == score_candidate(scoreReply)
    IN  [candidate_answer |-> generated_answer,
         passage |-> candidate_passage,
         score_components |-> score_components,
         combined_score |-> _calculate_combined_score(score_components),
         candidate_index |-> candidate_index]

\* ------------------------------------------------------------ SelfRAG.run
ResetRun ==
    /\ calls' = <<>>
    /\ retrieval_decision' = None
    /\ initial_candidates' = <<>>
    /\ top_passages' = <<>>
    /\ rerank_scores' = <<>>
    /\ next_passage' = 1
    /\ candidate_results' = <<>>
    /\ created' = <<>>
    /\ response' = None
    /\ failed_steps' = <<>>
    /\ rerank_failed' = FALSE
    /\ search_raised' = FALSE
    /\ follow_ups_failed' = FALSE

\* run is called: run_id = str(uuid.uuid4()), an id no earlier run had.
StartRun(q) ==
    /\ pc = "idle"
    /\ run_id' = run_id + 1
    /\ query' = q
    /\ pc' = "decide"
    /\ ResetRun
    /\ UNCHANGED <<audit_file, outside_run>>

\* 1) retrieval_decision = critic.decide_retrieve(query);
\*    should_retrieve = retrieval_decision.get("retrieve", True)
should_retrieve(decision) == Get(decision, "retrieve", Json("bool", TRUE))

Decide(reply) ==
    /\ pc = "decide"
    /\ retrieval_decision' = decide_retrieve(reply)
    /\ calls' = Append(calls, Call("decide_retrieve", 0))
    /\ pc' = IF ~Truthy(should_retrieve(retrieval_decision'))
             THEN "no_retrieval" ELSE "embed"
    /\ UNCHANGED outside_run
    /\ UNCHANGED <<search_raised, follow_ups_failed, failed_steps,
                   rerank_failed, run_id, query, initial_candidates,
                   top_passages, rerank_scores, next_passage,
                   candidate_results, created, audit_file, response>>

\* The branch "if not should_retrieve": generate without passages, audit,
\* return.
\* Variant: the metadata of the success path, selected index included.
no_retrieval_meta_indexed(decision) ==
    [retrieval_decision |-> decision,
     retrieval_performed |-> FALSE,
     selected_candidate_index |-> 0,
     model_versions |-> "critic_generator",
     status |-> "success"]

\* Variant: the flag of the retrieval path.
no_retrieval_meta_performed(decision) ==
    [retrieval_decision |-> decision,
     retrieval_performed |-> TRUE,
     model_versions |-> "critic_generator",
     status |-> "success"]

no_retrieval_meta(decision) ==
    [retrieval_decision |-> decision,
     retrieval_performed |-> FALSE,
     model_versions |-> "critic_generator",
     status |-> "success"]

GenerateWithoutRetrieval(genReply, fails) ==
    /\ pc = "no_retrieval"
    /\ LET generated_response == generate_from_passages(genReply, <<>>)
       IN  Finish(<<>>, generated_response,
                  no_retrieval_meta(retrieval_decision),
                  [run_id |-> run_id, answer |-> generated_response,
                   audit_id |-> current_file, retrieval_performed |-> FALSE],
                  fails)
    /\ calls' = Append(calls, Call("generate_from_passages", 0))
    /\ UNCHANGED outside_run
    /\ UNCHANGED <<search_raised, follow_ups_failed, failed_steps,
                   rerank_failed, run_id, query, retrieval_decision,
                   initial_candidates, top_passages, rerank_scores,
                   next_passage, candidate_results>>

\* 2) query_embedding = embed_model.embed([query])[0].  embed returns an
\*    empty array when the embedding fails; indexing it raises IndexError,
\*    which the except clause of run maps to _handle_pipeline_error.
Embed(ok, fails) ==
    /\ pc = "embed"
    /\ calls' = Append(calls, Call("embed", 1))
    /\ IF ok
       THEN /\ pc' = "retrieve"
            /\ UNCHANGED <<created, audit_file, response>>
       ELSE _handle_pipeline_error(fails)
    /\ UNCHANGED outside_run
    /\ UNCHANGED <<search_raised, follow_ups_failed, failed_steps,
                   rerank_failed, run_id, query, retrieval_decision,
                   initial_candidates, top_passages, rerank_scores,
                   next_passage, candidate_results>>

\*    initial_candidates = retriever.retrieve(query_embedding, k=top_k)
Retrieve(outcome, fails) ==
    /\ pc = "retrieve"
    /\ calls' = Append(calls, Call("retrieve", top_k))
    /\ initial_candidates' = retrieve(outcome, top_k)
    /\ search_raised' = (outcome.kind = "raise")
    /\ IF initial_candidates' = <<>>
       THEN _handle_empty_retrieval(fails)
       ELSE /\ pc' = "rerank"
            /\ UNCHANGED <<created, audit_file, response>>
    /\ UNCHANGED outside_run
    /\ UNCHANGED <<follow_ups_failed, failed_steps, rerank_failed, run_id,
                   query, retrieval_decision, top_passages, rerank_scores,
                   next_passage, candidate_results>>

\* invoke took one of its two fallback returns: the compressor is None or
\* compress_documents raised.
reranking_failed(outcome) == outcome.kind # "ok"

\* 3) top_passages, rerank_scores = reranker.rerank(query, candidates, top_n)
Rerank(outcome) ==
    /\ pc = "rerank"
    /\ calls' = Append(calls, Call("rerank", Len(initial_candidates)))
    /\ LET r == rerank(outcome, initial_candidates, TopN)
       IN  /\ top_passages' = r.passages
           /\ rerank_scores' = r.scores
           /\ pc' = IF r.passages = <<>> THEN "select" ELSE "candidates"
    /\ rerank_failed' = reranking_failed(outcome)
    /\ UNCHANGED outside_run
    /\ UNCHANGED <<search_raised, follow_ups_failed, failed_steps, run_id,
                   query, retrieval_decision, initial_candidates,
                   next_passage, candidate_results, created, audit_file,
                   response>>

\* The generator call failed: generate_from_passages took its except
\* branch.  The scoring call failed: score_candidate took its except branch.
generation_failed(reply) == reply.kind # "dict"
scoring_failed(reply) == reply.kind # "dict"

\* 4) one turn of "for idx, passage in enumerate(top_passages)"
ProcessCandidate(genReply, scoreReply) ==
    /\ pc = "candidates"
    /\ LET result == _process_candidate(genReply, scoreReply,
                                        top_passages[next_passage],
                                        next_passage - 1)
       IN  candidate_results' = Append(candidate_results, result)
    /\ calls' = calls \o <<Call("generate_from_passages", 1),
                           Call("score_candidate", 1)>>
    /\ failed_steps' = Append(failed_steps,
                               [generation |-> generation_failed(genReply),
                                scoring |-> scoring_failed(scoreReply)])
    /\ next_passage' = next_passage + 1
    /\ pc' = IF next_passage = Len(top_passages) THEN "select" ELSE "candidates"
    /\ UNCHANGED outside_run
    /\ UNCHANGED <<search_raised, follow_ups_failed, rerank_failed, run_id,
                   query, retrieval_decision, initial_candidates,
                   top_passages, rerank_scores, created, audit_file, response>>

\* 6) the support gate: best_score_components.get("issup", 0.0) < threshold.
\* Variant: the gate reads the relevance score.
support_insufficient_isrel(best_score_components) ==
    Lt(Get(best_score_components, "isrel", Num(0)),
       Num(fully_supported_threshold))

\* Variant: a score equal to the threshold is insufficient too.
support_insufficient_strict(best_score_components) ==
    ~Lt(Num(fully_supported_threshold),
        Get(best_score_components, "issup", Num(0)))

support_insufficient(best_score_components) ==
    Lt(Get(best_score_components, "issup", Num(0)),
       Num(fully_supported_threshold))

\* 5) sort, take the first; 6) the support gate.
Select(fails) ==
    /\ pc = "select"
    /\ IF candidate_results = <<>>
       THEN /\ _handle_processing_failure(fails)
            /\ UNCHANGED candidate_results
       ELSE LET sorted == SortDesc(candidate_results)
                best_score_components == sorted[1].score_components
            IN  /\ candidate_results' = sorted
                /\ IF support_insufficient(best_score_components)
                   THEN _handle_insufficient_support(sorted,
                                                     best_score_components, fails)
                   ELSE /\ pc' = "follow_ups"
                        /\ UNCHANGED <<created, audit_file, response>>
    /\ UNCHANGED outside_run
    /\ UNCHANGED <<search_raised, follow_ups_failed, failed_steps,
                   rerank_failed, run_id, query, calls, retrieval_decision,
                   initial_candidates, top_passages, rerank_scores,
                   next_passage>>

\* The follow-up chain failed or its reply has no usable 'questions': it
\* raised, the reply is not an object, 'questions' is missing, empty or
\* not a list.
FollowUpFailure(reply) ==
    \/ reply.kind # "dict"
    \/ "questions" \notin DOMAIN reply.body
    \/ ~reply.body.questions.islist
    \/ reply.body.questions.n = 0

\* 7) follow-ups attached to the best answer, the audit, the return.
success_meta(decision, retrieval_count, scores, best_score_components) ==
    [retrieval_decision |-> decision,
     retrieval_performed |-> TRUE,
     retrieval_count |-> retrieval_count,
     rerank_scores |-> scores,
     selected_candidate_index |-> 0,
     selected_candidate_scores |-> best_score_components,
     model_versions |-> "critic_generator_embedding",
     status |-> "success"]

WithFollowUps(answer, follow_up_questions) ==
    [k \in DOMAIN answer \cup {"follow_up_questions"} |->
        IF k = "follow_up_questions" THEN follow_up_questions ELSE answer[k]]

FollowUpsAndReturn(reply, fails) ==
    /\ pc = "follow_ups"
    /\ LET best_candidate == candidate_results[1]
           final_answer == WithFollowUps(best_candidate.candidate_answer,
                                         generate_follow_ups(reply))
           provenance_meta == success_meta(retrieval_decision,
                                           Len(initial_candidates),
                                           rerank_scores,
                                           best_candidate.score_components)
       IN  /\ candidate_results' =
                [candidate_results EXCEPT ![1].candidate_answer = final_answer]
           /\ Finish(top_passages, final_answer, provenance_meta,
                     [run_id |-> run_id, answer |-> final_answer,
                      provenance_meta |-> provenance_meta,
                      audit_path |-> current_file,
                      retrieval_performed |-> TRUE,
                      processing_time |-> 0],
                     fails)
    /\ calls' = Append(calls, Call("generate_follow_ups", Len(top_passages)))
    /\ follow_ups_failed' = FollowUpFailure(reply)
    /\ UNCHANGED outside_run
    /\ UNCHANGED <<search_raised, failed_steps, rerank_failed, run_id, query,
                   retrieval_decision, initial_candidates, top_passages,
                   rerank_scores, next_passage>>

Next ==
    \/ \E q \in Queries : StartRun(q)
    \/ \E reply \in DecideReplies : Decide(reply)
    \/ \E genReply \in GenReplies, fails \in BOOLEAN :
          GenerateWithoutRetrieval(genReply, fails)
    \/ \E ok \in BOOLEAN, fails \in BOOLEAN : Embed(ok, fails)
    \/ \E outcome \in RetrieveOutcomes, fails \in BOOLEAN : Retrieve(outcome, fails)
    \/ \E outcome \in RerankOutcomes(Len(initial_candidates)) : Rerank(outcome)
    \/ \E genReply \in GenReplies, scoreReply \in ScoreReplies :
          ProcessCandidate(genReply, scoreReply)
    \/ \E fails \in BOOLEAN : Select(fails)
    \/ \E reply \in FollowReplies, fails \in BOOLEAN : FollowUpsAndReturn(reply, fails)

Spec == Init /\ [][Next]_vars

\* ------------------------------------------------------------ the API
\* pydantic's validation of one item of QueryResponse.citations against
\* Citation: doc_id and text_excerpt are required, chunk_id is optional.
Citation(item) == {"doc_id", "text_excerpt"} \subseteq DOMAIN item

\* QueryResponse(...): the model, or a ValidationError (ok = FALSE) when a
\* citation does not validate.
QueryResponse(explanation, citations, confidence, follow_up_questions) ==
    [ok |-> \A i \in DOMAIN citations : Citation(citations[i]),
     body |-> [explanation |-> explanation,
               citations |-> citations,
               confidence |-> confidence,
               follow_up_questions |-> follow_up_questions]]

\* query_endpoint on the dict rag.run returned: the public response with
\* status 200, or HTTPException(500) when building it raised.  run itself
\* returns a dict on every path, its except clause included.
EmptyDict == [k \in {} |-> None]

query_endpoint(internal_resp) ==
    LET rag_answer == Get(internal_resp, "answer", EmptyDict)
        public_response ==
            QueryResponse(Get(rag_answer, "explanation", "No explanation generated."),
                          Get(rag_answer, "citations", <<>>),
                          Get(rag_answer, "confidence", "LOW"),
                          Get(rag_answer, "follow_up_questions",
                              [n |-> 0, default |-> FALSE]))
    IN  IF public_response.ok
        THEN [status_code |-> 200, body |-> public_response.body]
        ELSE [status_code |-> 500, detail |-> "validation_error"]

\* The files of ./audit/.  ProvenanceLogger appends every record to the
\* daily file audit_YYYYMMDD.jsonl, which exists once a line was written;
\* nothing writes a file per run.
audit_path(stem, ext) == [stem |-> stem, ext |-> ext]

audit_dir(file) ==
    IF file # <<>> THEN {audit_path([day |-> "YYYYMMDD"], "jsonl")} ELSE {}

\* get_audit: path = f"./audit/audit_{run_id}.json"; 404 unless it exists,
\* else the JSON document in it.
get_audit(rid, file) ==
    LET path == audit_path([run_id |-> rid], "json")
    IN  IF path \notin audit_dir(file)
        THEN [status_code |-> 404, detail |-> "audit not found"]
        ELSE [status_code |-> 200, body |-> file]

\* ------------------------------------- the audit sink, concurrent callers
\* ProvenanceLogger._write_sync step by step, for runs that reach
\* write_audit in parallel.  No lock is taken.  Every caller opens its own
\* file object on current_file in mode 'a' (O_APPEND), hands the whole line
\* to f.write, which keeps it in the file object, and leaves the with
\* block, which flushes the line with one write(2) and closes.
\*
\* write(2) on a descriptor opened with O_APPEND: the data goes to the end
\* of the file as it is at the time of the call, in one piece.
\* Variant: the data goes to the position the descriptor had at open.
os_write_at_open_position(file, position, data) ==
    [i \in 1..(IF Len(file) > position + Len(data)
               THEN Len(file) ELSE position + Len(data)) |->
        IF i > position /\ i <= position + Len(data)
        THEN data[i - position] ELSE file[i]]

os_write(file, position, data) == file \o data

\* open(self.current_file, 'a'): it raises (logged, swallowed, the record
\* is not written) or yields a file object positioned at the end of file.
SinkOpen(w, fails) ==
    /\ sink_pc[w] = "called"
    /\ sink_pc' = [sink_pc EXCEPT ![w] = IF fails THEN "failed" ELSE "opened"]
    /\ sink_fd' = [sink_fd EXCEPT ![w] = IF fails THEN 0 ELSE Len(file_bytes)]
    /\ UNCHANGED <<sink_buf, file_bytes>>

\* f.write(json.dumps(record) + '\n')
SinkWrite(w) ==
    /\ sink_pc[w] = "opened"
    /\ sink_buf' = [sink_buf EXCEPT ![w] = line(w)]
    /\ sink_pc' = [sink_pc EXCEPT ![w] = "buffered"]
    /\ UNCHANGED <<sink_fd, file_bytes>>

\* end of the with block: flush and close; _write_sync returns.
SinkClose(w) ==
    /\ sink_pc[w] = "buffered"
    /\ file_bytes' = os_write(file_bytes, sink_fd[w], sink_buf[w])
    /\ sink_buf' = [sink_buf EXCEPT ![w] = <<>>]
    /\ sink_pc' = [sink_pc EXCEPT ![w] = "returned"]
    /\ UNCHANGED sink_fd

outside_sink == <<run_vars, rerank_vars, singleton_vars>>

SinkNext ==
    \/ \E w \in Writers, fails \in BOOLEAN :
          SinkOpen(w, fails) /\ UNCHANGED outside_sink
    \/ \E w \in Writers : SinkWrite(w) /\ UNCHANGED outside_sink
    \/ \E w \in Writers : SinkClose(w) /\ UNCHANGED outside_sink

SinkSpec == Init /\ [][SinkNext]_vars

\* ------------------------------------------- rerank, called on its own
\* Candidate lists a caller can hand to rerank: up to MaxCandidates
\* passages, ids by position, each at distance 0.0 or 0.3.
CandidateLists ==
    UNION {[1..n -> {Num(0), Num(30)}] : n \in 0..MaxCandidates}

Passages(distances) ==
    [i \in DOMAIN distances |-> [id |-> i, distance |-> distances[i]]]

\* The top_n argument: None (NoIndex) or a number.
TopNArguments == {NoIndex} \cup 1..MaxCandidates

\* reranker.rerank(query, candidates, top_n), called once.
CallRerank(distances, top_n, outcome) ==
    /\ rr_call = None
    /\ rr_call' = [candidates |-> Passages(distances), top_n |-> top_n,
                   outcome |-> outcome]
    /\ rr_result' = rerank(outcome, Passages(distances), top_n)
    /\ UNCHANGED <<run_vars, sink_vars, singleton_vars>>

RerankNext ==
    \E distances \in CandidateLists, top_n \in TopNArguments :
        \E outcome \in RerankOutcomes(Len(distances)) :
            CallRerank(distances, top_n, outcome)

RerankSpec == Init /\ [][RerankNext]_vars

\* --------------------------------------------- get_self_rag, concurrent
\* lazy_self_rag.get_self_rag, one step per read or write of the shared
\* _rag_instance and per lock operation.  lazy_utils.singleton is the same
\* code with instances[cls] in the place of _rag_instance.
\* threading.Lock: acquire waits until the lock is free.
\* Variant: acquire never waits.
lock_free_always(holder) == TRUE

lock_free(holder) == holder = 0

\* if _rag_instance is None (outside the lock)
OuterCheck(t) ==
    /\ sg_pc[t] = "start"
    /\ sg_pc' = [sg_pc EXCEPT ![t] = IF sg_instance = 0 THEN "acquire"
                                     ELSE "return"]
    /\ UNCHANGED <<sg_lock, sg_instance, sg_new, sg_result, sg_built, sg_raised>>

\* with _rag_lock: (enter)
Acquire(t) ==
    /\ sg_pc[t] = "acquire"
    /\ lock_free(sg_lock)
    /\ sg_lock' = t
    /\ sg_pc' = [sg_pc EXCEPT ![t] = "check2"]
    /\ UNCHANGED <<sg_instance, sg_new, sg_result, sg_built, sg_raised>>

\* if _rag_instance is None (inside the lock)
InnerCheck(t) ==
    /\ sg_pc[t] = "check2"
    /\ sg_pc' = [sg_pc EXCEPT ![t] = IF sg_instance = 0 THEN "construct"
                                     ELSE "release"]
    /\ UNCHANGED <<sg_lock, sg_instance, sg_new, sg_result, sg_built, sg_raised>>

\* SelfRAG(): it returns a new object or raises.
Construct(t, raises) ==
    /\ sg_pc[t] = "construct"
    /\ raises => sg_raised < MaxRaises
    /\ IF raises
       THEN /\ sg_raised' = sg_raised + 1
            /\ sg_pc' = [sg_pc EXCEPT ![t] = "unwind"]
            /\ UNCHANGED <<sg_new, sg_built>>
       ELSE /\ sg_built' = sg_built + 1
            /\ sg_new' = [sg_new EXCEPT ![t] = sg_built + 1]
            /\ sg_pc' = [sg_pc EXCEPT ![t] = "store"]
            /\ UNCHANGED sg_raised
    /\ UNCHANGED <<sg_lock, sg_instance, sg_result>>

\* _rag_instance = <the new object>
Store(t) ==
    /\ sg_pc[t] = "store"
    /\ sg_instance' = sg_new[t]
    /\ sg_pc' = [sg_pc EXCEPT ![t] = "release"]
    /\ UNCHANGED <<sg_lock, sg_new, sg_result, sg_built, sg_raised>>

\* with _rag_lock: (exit), normally or while the exception propagates.
Release(t) ==
    /\ sg_pc[t] \in {"release", "unwind"}
    /\ sg_lock' = 0
    /\ sg_pc' = [sg_pc EXCEPT ![t] = IF sg_pc[t] = "unwind" THEN "raised"
                                     ELSE "return"]
    /\ UNCHANGED <<sg_instance, sg_new, sg_result, sg_built, sg_raised>>

\* return _rag_instance
Return(t) ==
    /\ sg_pc[t] = "return"
    /\ sg_result' = [sg_result EXCEPT ![t] = sg_instance]
    /\ sg_pc' = [sg_pc EXCEPT ![t] = "done"]
    /\ UNCHANGED <<sg_lock, sg_instance, sg_new, sg_built, sg_raised>>

\* The caller whose call raised calls get_self_rag again.
Retry(t) ==
    /\ sg_pc[t] = "raised"
    /\ sg_pc' = [sg_pc EXCEPT ![t] = "start"]
    /\ UNCHANGED <<sg_lock, sg_instance, sg_new, sg_result, sg_built, sg_raised>>

outside_singleton == <<run_vars, sink_vars, rerank_vars>>

SingletonNext ==
    \/ \E t \in Threads : OuterCheck(t) /\ UNCHANGED outside_singleton
    \/ \E t \in Threads : Acquire(t) /\ UNCHANGED outside_singleton
    \/ \E t \in Threads : InnerCheck(t) /\ UNCHANGED outside_singleton
    \/ \E t \in Threads, raises \in BOOLEAN :
          Construct(t, raises) /\ UNCHANGED outside_singleton
    \/ \E t \in Threads : Store(t) /\ UNCHANGED outside_singleton
    \/ \E t \in Threads : Release(t) /\ UNCHANGED outside_singleton
    \/ \E t \in Threads : Return(t) /\ UNCHANGED outside_singleton
    \/ \E t \in Threads : Retry(t) /\ UNCHANGED outside_singleton

SingletonSpec == Init /\ [][SingletonNext]_vars

\* ================================================================ claims
RecordsOf(file, rid) == {i \in DOMAIN file : file[i].run_id = rid}

\* The run ended without an error after retrieving: it returned the answer
\* of the selected candidate.
ReturnedSelected ==
    /\ pc = "done"
    /\ "error" \notin DOMAIN response
    /\ response.retrieval_performed

\* C1: a run that has returned created exactly one AuditRecord, with the
\* run's run_id, whatever terminal it ended in; the audit file holds that
\* record once, or not at all when the write failed, and never a second
\* record with that run_id.  While the run is under way no record exists.
C1_ExactlyOneAuditRecord ==
    /\ pc \notin {"idle", "done"} =>
          created = <<>> /\ RecordsOf(audit_file, run_id) = {}
    /\ pc = "done" =>
          /\ Len(created) = 1
          /\ created[1].run_id = run_id
          /\ Cardinality(RecordsOf(audit_file, run_id)) <= 1
          /\ \A i \in RecordsOf(audit_file, run_id) : audit_file[i] = created[1]

\* A run ended in pipeline_error with a failing audit write: the record was
\* created and the file does not hold it.
C1_Witness ==
    /\ pc = "done"
    /\ Get(response, "error", "None") = "pipeline_error"
    /\ Len(created) = 1
    /\ RecordsOf(audit_file, run_id) = {}

\* C2: every AuditRecord, created or in the file, with retrieval_performed
\* false has no top candidates and no selected candidate index.
AllRecords == {created[i] : i \in DOMAIN created}
              \cup {audit_file[i] : i \in DOMAIN audit_file}

C2_NoRetrievalNoCandidates ==
    \A r \in AllRecords :
        ~r.retrieval_performed =>
            r.top_candidates = <<>> /\ r.selected_candidate_index = NoIndex

\* The file holds this run's record and it says retrieval_performed false.
C2_Witness ==
    \E i \in RecordsOf(audit_file, run_id) : ~audit_file[i].retrieval_performed

\* C3: when run returns the answer of the selected candidate, that
\* candidate's issup is a number at or above the support threshold.
C3_SelectedIsSupported ==
    ReturnedSelected =>
        LET best == candidate_results[1]
        IN  /\ response.answer = best.candidate_answer
            /\ ~best.score_components.issup.nan
            /\ best.score_components.issup.v >= fully_supported_threshold

\* A returned selection whose issup is exactly the threshold.
C3_Witness ==
    /\ ReturnedSelected
    /\ candidate_results[1].score_components.issup = Num(fully_supported_threshold)

\* The run has chosen its best candidate: the list is sorted and its first
\* element is the one run works with.
BestChosen == pc \in {"follow_ups", "done"} /\ candidate_results # <<>>

Better(c, d) == Lt(d.combined_score, c.combined_score)
SameCombined(c, d) == ~Better(c, d) /\ ~Better(d, c)

\* C4: in the audit of a successful run with retrieval, the selected index
\* lies within top_candidates and the entry at that index is the selected
\* candidate's passage, with an issup score at or above the threshold.
C4_AuditedSelectionIsSelected ==
    (pc = "done" /\ created # <<>> /\ created[1].status = "success"
     /\ created[1].retrieval_performed) =>
        LET rec == created[1]
            idx == rec.selected_candidate_index
        IN  /\ idx >= 0
            /\ idx < Len(rec.top_candidates)
            /\ rec.top_candidates[idx + 1].candidate_id
                   = candidate_results[1].passage.id
            /\ rec.top_candidates[idx + 1].issup_score # None
            /\ ~rec.top_candidates[idx + 1].issup_score.nan
            /\ rec.top_candidates[idx + 1].issup_score.v
                   >= fully_supported_threshold

\* C5: once the best candidate is chosen, no retained candidate has a
\* larger combined score than it; every reranked passage still has its
\* candidate in the list; and the best candidate's answer is what the run
\* returns, as the answer or as the best_attempt of insufficient_support.
C5_SelectionMonotonic ==
    BestChosen =>
        LET best == candidate_results[1]
        IN  /\ \A i \in DOMAIN candidate_results :
                  ~Better(candidate_results[i], best)
            /\ Len(candidate_results) = Len(top_passages)
            /\ {candidate_results[i].candidate_index : i \in DOMAIN candidate_results}
                   = 0..(Len(top_passages) - 1)
            /\ pc = "done" =>
                  IF "error" \in DOMAIN response
                  THEN response.answer.best_attempt = best.candidate_answer
                  ELSE response.answer = best.candidate_answer

\* An insufficient_support run whose best attempt is the second reranked
\* passage's candidate, with a strictly larger combined score than the
\* first one's.
C5_Witness ==
    /\ pc = "done"
    /\ Get(response, "error", "None") = "insufficient_support"
    /\ Len(candidate_results) >= 2
    /\ candidate_results[1].candidate_index = 1
    /\ Better(candidate_results[1], candidate_results[2])

\* C6 as stated: the candidates are in the order combined descending, then
\* issup descending, then post-rerank index ascending.
PrecedesByIssup(c, d) ==
    \/ Better(c, d)
    \/ /\ SameCombined(c, d)
       /\ \/ Lt(d.score_components.issup, c.score_components.issup)
          \/ /\ c.score_components.issup = d.score_components.issup
             /\ c.candidate_index < d.candidate_index

C6_TiesBrokenByIssup ==
    BestChosen =>
        \A i, j \in DOMAIN candidate_results :
            i < j => PrecedesByIssup(candidate_results[i], candidate_results[j])

\* C6 as amended: the candidates are in the order combined descending, then
\* post-rerank index ascending; issup takes no part in the order.
PrecedesByIndex(c, d) ==
    \/ Better(c, d)
    \/ SameCombined(c, d) /\ c.candidate_index < d.candidate_index

C6_TiesBrokenByIndex ==
    BestChosen =>
        \A i, j \in DOMAIN candidate_results :
            i < j => PrecedesByIndex(candidate_results[i], candidate_results[j])

\* Two candidates with the same combined score: the best one has the
\* smaller index and the smaller issup.
C6_Witness ==
    /\ BestChosen
    /\ Len(candidate_results) >= 2
    /\ SameCombined(candidate_results[1], candidate_results[2])
    /\ Lt(candidate_results[1].score_components.issup,
          candidate_results[2].score_components.issup)

\* C7: the weights sum to 1 and every candidate's isrel, issup and isuse
\* are numbers in [0, 1] whose weighted sum is its combined score.
InUnit(x) == ~x.nan /\ x.v >= 0 /\ x.v <= 100

C7_ScoresInRangeAndCombined ==
    /\ w_isrel + w_issup + w_isuse = 100
    /\ \A i \in DOMAIN candidate_results :
          LET sc == candidate_results[i].score_components
          IN  /\ InUnit(sc.isrel) /\ InUnit(sc.issup) /\ InUnit(sc.isuse)
              /\ ~candidate_results[i].combined_score.nan
              /\ candidate_results[i].combined_score.v
                     = w_isrel * sc.isrel.v + w_issup * sc.issup.v
                       + w_isuse * sc.isuse.v

\* Candidates from the reply {isrel: 1.3, issup: -0.2} (no isuse) and from
\* the reply {isrel: null, issup: "0.9", isuse: NaN}.
C7_Witness ==
    /\ \E i \in DOMAIN candidate_results :
          LET sc == candidate_results[i].score_components
          IN  sc.isrel = Num(100) /\ sc.issup = Num(0) /\ sc.isuse = Num(50)
    /\ \E i \in DOMAIN candidate_results :
          LET sc == candidate_results[i].score_components
          IN  sc.isrel = Num(50) /\ sc.issup = Num(90) /\ sc.isuse = Num(100)

\* C8: a run on a query that is empty once trimmed calls no collaborator
\* and ends in bad_request with an audit record.
C8_BlankQueryRejected ==
    (pc # "idle" /\ strip(query) = "") =>
        /\ calls = <<>>
        /\ pc = "done" =>
              /\ Get(response, "error", "None") = "bad_request"
              /\ Len(created) = 1

\* C9: a decision that came from the fallback, or whose 'retrieve' is not a
\* boolean, is used as retrieve = true: the run does not take the
\* no-retrieval branch.
DecisionMalformed ==
    /\ retrieval_decision # None
    /\ \/ Get(retrieval_decision, "notes", "absent") = "fallback"
       \/ should_retrieve(retrieval_decision).t # "bool"

C9_DecisionFailsOpen ==
    DecisionMalformed =>
        /\ Truthy(should_retrieve(retrieval_decision))
        /\ pc # "no_retrieval"
        /\ \A i \in DOMAIN calls : calls[i] # Call("generate_from_passages", 0)

\* C10: after a decision not to retrieve, the run only generates: at its
\* return the calls are decide_retrieve and one generate_from_passages with
\* no passage, the one AuditRecord says retrieval_performed false and
\* status success and holds the generated answer, the file holds no other
\* record of the run, and the response says retrieval_performed false.
DecidedNoRetrieval ==
    /\ retrieval_decision # None
    /\ ~Truthy(should_retrieve(retrieval_decision))

C10_NoRetrievalPath ==
    DecidedNoRetrieval =>
        /\ pc \in {"no_retrieval", "done"}
        /\ pc = "no_retrieval" => calls = <<Call("decide_retrieve", 0)>>
        /\ pc = "done" =>
              /\ calls = <<Call("decide_retrieve", 0),
                           Call("generate_from_passages", 0)>>
              /\ Len(created) = 1
              /\ ~created[1].retrieval_performed
              /\ created[1].status = "success"
              /\ created[1].error = "None"
              /\ created[1].result = response.answer
              /\ \A i \in RecordsOf(audit_file, run_id) :
                    audit_file[i] = created[1]
              /\ ~response.retrieval_performed
              /\ "error" \notin DOMAIN response

\* The critic answered {"retrieve": false}, the generator answered and the
\* audit record is in the file.
C10_Witness ==
    /\ pc = "done"
    /\ retrieval_decision # None
    /\ should_retrieve(retrieval_decision) = Json("bool", FALSE)
    /\ response.answer.explanation = "generated"
    /\ RecordsOf(audit_file, run_id) # {}

\* The calls of the run so far to the collaborator operations in ops.
CallsTo(ops) == {i \in DOMAIN calls : calls[i].op \in ops}

\* The vector index was searched and returned no passage.
RetrievedNothing ==
    /\ CallsTo({"retrieve"}) # {}
    /\ initial_candidates = <<>>

\* C11: when the search of the vector index returns no passage, the run
\* ends there in empty_retrieval: the response carries error
\* empty_retrieval and the canned "no relevant documents" answer with
\* confidence LOW and no citations, the one AuditRecord has status error
\* and error empty_retrieval, and the reranker, the generator and the
\* critic's scorer were never called.
C11_EmptyRetrievalTerminal ==
    RetrievedNothing =>
        /\ pc = "done"
        /\ Get(response, "error", "None") = "empty_retrieval"
        /\ response.answer.explanation = "no_relevant_documents"
        /\ response.answer.confidence = "LOW"
        /\ response.answer.citations = <<>>
        /\ Len(created) = 1
        /\ created[1].status = "error"
        /\ created[1].error = "empty_retrieval"
        /\ created[1].result = response.answer
        /\ CallsTo({"rerank", "generate_from_passages", "score_candidate",
                    "generate_follow_ups"}) = {}

\* The search returned nothing, the run has returned and its record is in
\* the audit file.
C11_Witness ==
    /\ RetrievedNothing
    /\ pc = "done"
    /\ \E i \in RecordsOf(audit_file, run_id) :
          audit_file[i].error = "empty_retrieval"

\* The best candidate is chosen and its issup is below the threshold.
BestUnsupported ==
    /\ BestChosen
    /\ candidate_results[1].score_components.issup.v < fully_supported_threshold

\* C12: when the best candidate's issup is below the support threshold the
\* run ends in insufficient_support: the response carries error
\* insufficient_support and a payload with the best candidate's answer as
\* best attempt, that candidate's issup and the request for more
\* documents; the one AuditRecord has status error and error
\* insufficient_support; generate_follow_ups was not called.
C12_InsufficientSupportTerminal ==
    BestUnsupported =>
        LET best == candidate_results[1]
        IN  /\ pc = "done"
            /\ Get(response, "error", "None") = "insufficient_support"
            /\ response.answer.best_attempt = best.candidate_answer
            /\ response.answer.support_score = best.score_components.issup
            /\ response.answer.message = "need_more_documents"
            /\ Len(created) = 1
            /\ created[1].status = "error"
            /\ created[1].error = "insufficient_support"
            /\ CallsTo({"generate_follow_ups"}) = {}

\* An insufficient_support return whose best candidate has issup 0.6 and
\* the largest combined score a candidate can have with that issup.
C12_Witness ==
    /\ BestUnsupported
    /\ pc = "done"
    /\ candidate_results[1].score_components.issup = Num(60)
    /\ candidate_results[1].score_components.isrel = Num(100)

\* Every reranked passage was processed, and for each of them both the
\* generator call and the scoring call failed.
AllStepsFailed ==
    /\ pc \in {"select", "follow_ups", "done"}
    /\ top_passages # <<>>
    /\ Len(failed_steps) = Len(top_passages)
    /\ \A i \in DOMAIN failed_steps :
          failed_steps[i].generation /\ failed_steps[i].scoring

\* C13: when for every reranked passage both the generator call and the
\* scoring call failed, no candidate is retained and the run ends in
\* processing_failure, with an AuditRecord of status error and error
\* processing_failure.
C13_AllFailedIsProcessingFailure ==
    AllStepsFailed =>
        /\ candidate_results = <<>>
        /\ pc # "follow_ups"
        /\ pc = "done" =>
              /\ Get(response, "error", "None") = "processing_failure"
              /\ Len(created) = 1
              /\ created[1].status = "error"
              /\ created[1].error = "processing_failure"

\* run indexed the empty array the embedder returned: an exception raised
\* inside run, past every collaborator's own fallback, and run returned.
ExceptionEscaped ==
    /\ pc = "done"
    /\ calls # <<>>
    /\ calls[Len(calls)].op = "embed"

\* C14: an exception raised inside run is mapped to pipeline_error, audited
\* with status error and error pipeline_error, and answered by POST /query
\* with HTTP 500.
C14_PipelineErrorIsHttp500 ==
    ExceptionEscaped =>
        /\ Get(response, "error", "None") = "pipeline_error"
        /\ Len(created) = 1
        /\ created[1].status = "error"
        /\ created[1].error = "pipeline_error"
        /\ query_endpoint(response).status_code = 500

\* C15: a run whose audit write failed returns a response with an empty
\* audit_id, and a run whose audit write succeeded returns a response with
\* a non-empty audit_id; the answer and the error field are those of the
\* AuditRecord either way.
C15_AuditIdTellsWriteOutcome ==
    pc = "done" =>
        /\ created[1].result = response.answer
        /\ created[1].error = Get(response, "error", "None")
        /\ IF RecordsOf(audit_file, run_id) = {}
           THEN Get(response, "audit_id", "") = ""
           ELSE Get(response, "audit_id", "") # ""

\* C16: the dict run returns has the keys run_id, answer, provenance_meta
\* and audit_id, its answer has explanation, citations and confidence, and
\* audit_id is the path of the audit file, which exists.
C16_ResponseShape ==
    pc = "done" =>
        /\ {"run_id", "answer", "provenance_meta", "audit_id"}
               \subseteq DOMAIN response
        /\ {"explanation", "citations", "confidence"}
               \subseteq DOMAIN response.answer
        /\ response.audit_id = current_file
        /\ audit_dir(audit_file) # {}

\* C17: POST /query answers every run with a valid Answer (citations that
\* each carry doc_id and text_excerpt, a confidence among HIGH, MEDIUM and
\* LOW), and after an error terminal the confidence in that body and the
\* confidence in the AuditRecord are both LOW.
C17_ValidAnswerAndLowOnError ==
    pc = "done" =>
        LET http == query_endpoint(response)
        IN  /\ http.status_code = 200
            /\ \A i \in DOMAIN http.body.citations :
                  Citation(http.body.citations[i])
            /\ http.body.confidence \in {"HIGH", "MEDIUM", "LOW"}
            /\ "error" \in DOMAIN response =>
                  /\ http.body.confidence = "LOW"
                  /\ created[1].confidence = "LOW"

\* The run returned without an error: its AuditRecord says success.
CompletedSuccessfully ==
    /\ pc = "done"
    /\ created[1].status = "success"

\* C18: after a run that completed successfully, GET /audit/<run_id>
\* answers 200 with that run's AuditRecord.
C18_AuditRetrievable ==
    CompletedSuccessfully =>
        LET http == get_audit(run_id, audit_file)
        IN  /\ http.status_code = 200
            /\ http.body = created[1]

\* The audit file is a sequence of whole lines: the JSON text of a record
\* followed by that record's newline.
CompleteLines(file) ==
    /\ Len(file) % 2 = 0
    /\ \A i \in 1..(Len(file) \div 2) :
          /\ file[2 * i - 1].part = "json"
          /\ file[2 * i].part = "newline"
          /\ file[2 * i].run_id = file[2 * i - 1].run_id

LinesOf(file, rid) ==
    {i \in DOMAIN file : file[i] = [run_id |-> rid, part |-> "json"]}

CandidatesOf(i) ==
    {j \in DOMAIN candidate_results :
        candidate_results[j].candidate_index = i - 1}

\* C20: a passage whose generation and scoring both failed has no candidate
\* in the list handed to selection; any other processed passage has exactly
\* one, and its scores are 0.5, 0.5, 0.5 when its scoring failed.
C20_FailedCandidateDropped ==
    \A i \in DOMAIN failed_steps :
        IF failed_steps[i].generation /\ failed_steps[i].scoring
        THEN CandidatesOf(i) = {}
        ELSE /\ Cardinality(CandidatesOf(i)) = 1
             /\ failed_steps[i].scoring =>
                   \A j \in CandidatesOf(i) :
                       LET sc == candidate_results[j].score_components
                       IN  /\ sc.isrel = Num(fallback_score)
                           /\ sc.issup = Num(fallback_score)
                           /\ sc.isuse = Num(fallback_score)

\* C21: when the reranker fell back, the run goes on with the first TOP_N
\* retrieved passages in their retrieved order, distances ascending, and
\* the provenance of the run says rerank_failed = true.
C21_RerankFallbackFlagged ==
    rerank_failed =>
        /\ Len(top_passages) = Min2(TopN, Len(initial_candidates))
        /\ \A i \in DOMAIN top_passages :
              /\ top_passages[i].id = initial_candidates[i].id
              /\ top_passages[i].distance = initial_candidates[i].distance
        /\ \A i, j \in DOMAIN top_passages :
              i < j => ~Lt(top_passages[j].distance, top_passages[i].distance)
        /\ pc = "done" =>
              /\ "provenance_meta" \in DOMAIN response
              /\ Get(response.provenance_meta, "rerank_failed", FALSE)

\* run indexed the empty array of a failed embedding and has returned.
EmbeddingWasEmpty ==
    /\ pc = "done"
    /\ CallsTo({"embed"}) # {}
    /\ CallsTo({"retrieve"}) = {}

\* C24: a run whose embedder returned an empty vector ends as an empty
\* retrieval: error empty_retrieval in the response and in the AuditRecord,
\* not pipeline_error.
C24_EmptyEmbeddingIsEmptyRetrieval ==
    EmbeddingWasEmpty =>
        /\ Get(response, "error", "None") = "empty_retrieval"
        /\ created[1].error = "empty_retrieval"

\* C26: the AuditRecord of a run holds the retrieval decision the critic,
\* or its fallback, produced in that run, whatever the terminal.
C26_AuditHoldsDecision ==
    pc = "done" =>
        /\ Len(created) = 1
        /\ created[1].retrieval_decision = retrieval_decision

ErrorNames == {"empty_retrieval", "insufficient_support",
               "processing_failure", "pipeline_error"}

\* C27: in every AuditRecord, created or in the file, status is error
\* exactly when the error field is one of the four error names, and
\* success exactly when no error is recorded; the response of a run has an
\* error key exactly when its AuditRecord has an error, with the same
\* value.
C27_StatusMatchesError ==
    /\ \A r \in AllRecords :
          /\ r.status \in {"success", "error"}
          /\ r.status = "error" <=> r.error \in ErrorNames
          /\ r.status = "success" <=> r.error = "None"
    /\ pc = "done" =>
          /\ "error" \in DOMAIN response <=> created[1].error # "None"
          /\ Get(response, "error", "None") = created[1].error

\* A run that ended in insufficient_support, its record in the file.
C27_Witness ==
    /\ pc = "done"
    /\ Get(response, "error", "None") = "insufficient_support"
    /\ \E i \in RecordsOf(audit_file, run_id) :
          audit_file[i].status = "error"

\* C28: the retrieval_performed flag of the response equals the
\* retrieval_performed flag of the run's AuditRecord, in every terminal.
C28_RetrievalFlagsAgree ==
    pc = "done" =>
        /\ "retrieval_performed" \in DOMAIN response
        /\ response.retrieval_performed = created[1].retrieval_performed

\* C23: the follow-up step of a run returns at most 5 questions: the fixed
\* list of 5 default questions exactly when the chain failed or gave no
\* usable questions, questions of the reply otherwise; and the list is in
\* the answer, as follow_up_questions, when the AuditRecord is created
\* from it.  Only a run that returns a selected answer asks for follow-ups.
C23_FollowUpsBoundedOrDefault ==
    /\ ~ReturnedSelected => ~follow_ups_failed
    /\ ReturnedSelected =>
          /\ "follow_up_questions" \in DOMAIN response.answer
          /\ LET f == response.answer.follow_up_questions
             IN  /\ f.n >= 1 /\ f.n <= 5
                 /\ follow_ups_failed <=> f = [n |-> 5, default |-> TRUE]
                 /\ ~follow_ups_failed => ~f.default
                 /\ created[1].result = response.answer
                 /\ created[1].follow_up_questions = f

\* A successful run whose follow-up reply held more than 5 questions: 5 of
\* them are in the returned answer and in the record in the file.
C23_Witness ==
    /\ ReturnedSelected
    /\ ~follow_ups_failed
    /\ response.answer.follow_up_questions = [n |-> 5, default |-> FALSE]
    /\ \E i \in RecordsOf(audit_file, run_id) :
          audit_file[i].follow_up_questions = [n |-> 5, default |-> FALSE]

\* C25: a search of the vector store that raises makes retrieve return the
\* empty list, and the run ends there in empty_retrieval.
C25_FailedSearchIsEmptyRetrieval ==
    search_raised =>
        /\ initial_candidates = <<>>
        /\ pc = "done"
        /\ Get(response, "error", "None") = "empty_retrieval"
        /\ Len(created) = 1
        /\ created[1].error = "empty_retrieval"
        /\ CallsTo({"rerank"}) = {}

\* The search raised, the run ended in empty_retrieval and its record is
\* in the audit file.
C25_Witness ==
    /\ search_raised
    /\ pc = "done"
    /\ \E i \in RecordsOf(audit_file, run_id) :
          audit_file[i].error = "empty_retrieval"

\* c is the top-ranked retained candidate: none has a larger combined
\* score, and none with the same combined score has a smaller index.
TopRanked(c) ==
    \A j \in DOMAIN candidate_results :
        LET d == candidate_results[j]
        IN  /\ ~Better(d, c)
            /\ SameCombined(d, c) => c.candidate_index <= d.candidate_index

RequestedTopN == IF rr_call.top_n = NoIndex THEN reranker_top_n
                 ELSE rr_call.top_n

\* C22: a call rerank(query, passages, top_n) returns a passage list and a
\* score list of the same length, at most min(top_n, len(passages)) for
\* the top_n of the call, and every returned passage has a rerank_score.
C22_RerankLengthBounded ==
    rr_call # None =>
        /\ Len(rr_result.passages) = Len(rr_result.scores)
        /\ Len(rr_result.passages)
               <= Min2(RequestedTopN, Len(rr_call.candidates))
        /\ \A i \in DOMAIN rr_result.passages :
              "rerank_score" \in DOMAIN rr_result.passages[i]

\* The threads inside the with block of get_self_rag.
InsideLock == {t \in Threads :
                  sg_pc[t] \in {"check2", "construct", "store", "release",
                               "unwind"}}

\* C30: however the calls of get_self_rag interleave, the constructor
\* completes at most once, every call that has returned got the one stored
\* instance, nothing is stored while no constructor run has completed, and
\* the lock is held only by a thread inside the with block, so not by one
\* whose constructor call raised.
C30_SingletonRaceFree ==
    /\ sg_built <= 1
    /\ sg_instance \in {0, 1}
    /\ sg_built = 0 => sg_instance = 0
    /\ \A t \in Threads :
          sg_pc[t] = "done" => sg_result[t] = 1 /\ sg_result[t] = sg_instance
    /\ Cardinality(InsideLock) <= 1
    /\ sg_lock = 0 <=> InsideLock = {}
    /\ sg_lock # 0 => InsideLock = {sg_lock}

\* A constructor call raised, and afterwards every thread, the one that
\* retried included, got the instance.
C30_Witness ==
    /\ sg_raised >= 1
    /\ \A t \in Threads : sg_pc[t] = "done" /\ sg_result[t] = 1

====
